---- MODULE Spec2Model ----
(***************************************************************************)
(* DMX512 receiver / decoder of the AnimLED board (Core/Src/DMX512.c,      *)
(* Core/Inc/DMX512.h).                                                     *)
(*                                                                         *)
(* Two execution contexts share the module's static state:                 *)
(*   - the UART interrupt context, which runs DMX_ErrorCallback and        *)
(*     DMX_RxCallback to completion;                                       *)
(*   - the main loop, which calls DMX_Init, DMX_IsNewFrameAvailable,       *)
(*     DMX_DecodeFrame, DMX_ApplyDimmer, DMX_SetChannel, ... and can be    *)
(*     preempted by the interrupt context between any two of its memory    *)
(*     accesses.                                                           *)
(***************************************************************************)
EXTENDS Integers, Sequences, FiniteSets, TLC

(* ---------------- program constants (DMX512.h) ---------------- *)
DMX_FRAME_SIZE == 513
DMX_START_CODE == 0
DMX_CHANNEL_MIN == 1
DMX_CHANNEL_MAX == 506
DMX_OFFSET_RED == 0
DMX_OFFSET_GREEN == 1
DMX_OFFSET_BLUE == 2
DMX_OFFSET_DIMMER == 3
DMX_OFFSET_FLASH == 4

(* ---------------- bounds of the model ---------------- *)
\* the statistics counters are followed up to this value
MaxCount == 2

(* ---------------- C integer types ---------------- *)
ToUint8(n) == n % 256
ToUint16(n) == n % 65536

(* ---------------- environment ---------------- *)
\* UART handles of the board; NULL is the value of huart_dmx before DMX_Init
NULL == "NULL"
Handles == {"huart1", "huart2"}
\* values a DMX controller puts on the wire in this model
WireValues == {0, 85}
\* slots of a frame in which the controller sends a value other than 0:
\* the start code and the last channel
MarkerSlots == {0, DMX_FRAME_SIZE - 1}
\* bytes that can arrive when the receiver stands at slot idx (at
\* DMX_FRAME_SIZE the frame is over and anything may follow)
WireBytes(idx) == IF idx \in MarkerSlots \/ idx >= DMX_FRAME_SIZE THEN WireValues ELSE {0}
\* arguments the main loop passes as a channel address (an int, converted to
\* the uint8_t parameter by the call)
ChannelArgs == {0, 1, 2, 250, 255, 256, 300, 506, 507}
\* start channels passed to DMX_Init by the main loop
StartChannels == {0, 1}

ZeroFrame == [i \in 0..(DMX_FRAME_SIZE - 1) |-> 0]
ZeroData == [red |-> 0, green |-> 0, blue |-> 0, dimmer |-> 0, flash |-> 0]

VARIABLES
    huart_dmx,            \* static UART_HandleTypeDef *huart_dmx
    dmxChannel,           \* static uint8_t dmxChannel
    totalFramesReceived,  \* static uint32_t
    errorFramesReceived,  \* static uint32_t
    dmxFlag,              \* volatile uint8_t
    indexDmx,             \* volatile uint16_t
    dmxFrame,             \* uint8_t dmxFrame[DMX_FRAME_SIZE]
    rxBuf,                \* uint8_t rxBuf[1]
    rxArmed,              \* HAL: a one-byte interrupt reception is pending
    pc,                   \* position of the main loop inside the call it runs
    data,                 \* the caller's DMX_DataTypeDef filled by DMX_DecodeFrame
    output,               \* the caller's DMX_DataTypeDef filled by DMX_ApplyDimmer
    ret,                  \* value returned by the last completed call (bool as 0/1)
    statsOut,             \* <<*totalFrames, *errorFrames>> of the last DMX_GetStats
    \* ---- history variables (observations, never read by the program) ----
    lastOp,               \* name of the function that made the last step
    lastArg,              \* its argument (handle, pointer or address)
    preIndex,             \* indexDmx before the last step
    preFlag,              \* dmxFlag before the last step
    scen,                 \* progress of "break, 513 bytes, poll, poll"
    nBytes,               \* bytes handled since the break that opened scen
    raisedInPoll,         \* the receiver set dmxFlag since the pending poll tested it
    signalled,            \* a poll found the flag set since the last break or DMX_Init
    callPre,              \* what the main loop's current (or last) call found on entry
    reqAddr,              \* the last address in 1..506 the main loop asked for
    readAt,               \* the indices the current (or last) call read channel values at
    breakSeen,            \* a break was handled since the last DMX_Init
    sinceSync,            \* the bytes handled since the last break or DMX_Init (first 513)
    nSince,               \* their number (followed up to 514)
    wrote,                \* index DMX_RxCallback last wrote dmxFrame at since then (-1: none)
    lostSignal            \* the most recent break cleared a flag no poll had found set

prog == <<huart_dmx, dmxChannel, totalFramesReceived, errorFramesReceived,
          dmxFlag, indexDmx, dmxFrame, rxBuf, rxArmed>>
caller == <<pc, data, output, ret, statsOut>>
hist == <<lastOp, lastArg, preIndex, preFlag, scen, nBytes, raisedInPoll, signalled>>
callHist == <<callPre, reqAddr, readAt>>
syncHist == <<breakSeen, sinceSync, nSince, wrote, lostSignal>>
vars == <<prog, caller, hist, callHist, syncHist>>

\* history bookkeeping on entry of a call of the main loop
\* (`polled' is recorded for a decode only: a poll had found the flag set for
\* the frame in the buffer)
EnterWith(arg, polled) ==
    /\ callPre' = [channel |-> dmxChannel, total |-> totalFramesReceived,
                   error |-> errorFramesReceived, data |-> data, arg |-> arg,
                   signalled |-> polled]
    /\ readAt' = {}

Enter(arg) == EnterWith(arg, FALSE)

\* history bookkeeping common to every step
Note(op, arg) ==
    /\ lastOp' = op
    /\ lastArg' = arg
    /\ preIndex' = indexDmx
    /\ preFlag' = dmxFlag

(* ---------------- state after static construction (DMX512.c:13-24) ------- *)
Init ==
    /\ huart_dmx = NULL
    /\ dmxChannel = 1
    /\ totalFramesReceived = 0
    /\ errorFramesReceived = 0
    /\ dmxFlag = 0
    /\ indexDmx = 0
    /\ dmxFrame = ZeroFrame
    /\ rxBuf = 0
    /\ rxArmed = FALSE
    /\ pc = "idle"
    /\ data = ZeroData
    /\ output = ZeroData
    /\ ret = 0
    /\ statsOut = <<0, 0>>
    /\ lastOp = "none"
    /\ lastArg = NULL
    /\ preIndex = 0
    /\ preFlag = 0
    /\ scen = "none"
    /\ nBytes = 0
    /\ raisedInPoll = FALSE
    /\ signalled = FALSE
    /\ callPre = [channel |-> 1, total |-> 0, error |-> 0, data |-> ZeroData, arg |-> 0,
                  signalled |-> FALSE]
    /\ reqAddr = 1
    /\ readAt = {}
    /\ breakSeen = FALSE
    /\ sinceSync = <<>>
    /\ nSince = 0
    /\ wrote = -1
    /\ lostSignal = FALSE

(* ---------------- DMX_SetChannel (DMX512.c:54-64) ---------------- *)
\* the range test of line 59 on the uint8_t parameter
ChannelValid_NoMin(channel) == channel <= DMX_CHANNEL_MAX

ChannelValid(channel) == channel >= DMX_CHANNEL_MIN /\ channel <= DMX_CHANNEL_MAX

\* value of dmxChannel after DMX_SetChannel(arg)
SetChannelResult(arg, old) == IF ChannelValid(ToUint8(arg)) THEN ToUint8(arg) ELSE old

\* its return value
SetChannelReturn(arg) == IF ChannelValid(ToUint8(arg)) THEN 1 ELSE 0

(* ---------------- HAL_UART_Receive_IT(huart_dmx, rxBuf, 1) ---------------- *)
\* arms the reception of one byte on the handle; a NULL handle is refused
HAL_UART_Receive_IT(h) == h # NULL

(* ---------------- DMX_Init (DMX512.c:31-49) ---------------- *)
\* DMX_ResetStats, lines 246-247: what a counter becomes
StatsAfterReset_Kept(n) == n

StatsAfterReset(n) == 0

DMX_Init(huart, startChannel) ==
    /\ pc = "idle"
    /\ huart_dmx' = huart
    /\ dmxChannel' = SetChannelResult(startChannel, dmxChannel)
    /\ indexDmx' = 0
    /\ dmxFlag' = 0
    /\ dmxFrame' = ZeroFrame
    /\ totalFramesReceived' = StatsAfterReset(totalFramesReceived)
    /\ errorFramesReceived' = StatsAfterReset(errorFramesReceived)
    /\ rxArmed' = HAL_UART_Receive_IT(huart)
    /\ UNCHANGED <<rxBuf, caller>>
    /\ Note("DMX_Init", huart)
    /\ scen' = "none"
    /\ nBytes' = 0
    /\ raisedInPoll' = FALSE
    /\ signalled' = FALSE
    /\ Enter(startChannel)
    /\ reqAddr' = IF startChannel \in DMX_CHANNEL_MIN..DMX_CHANNEL_MAX
                    THEN startChannel ELSE reqAddr
    /\ breakSeen' = FALSE
    /\ sinceSync' = <<>>
    /\ nSince' = 0
    /\ wrote' = -1
    /\ lostSignal' = FALSE

\* lines 173 and 207: the callback is for the UART given to DMX_Init
IsDmxUart_Any(huart) == TRUE

IsDmxUart_NotNull(huart) == huart # NULL

IsDmxUart(huart) == huart = huart_dmx

(* ---------------- DMX_ErrorCallback (DMX512.c:170-183) ---------------- *)
\* line 175: the fill index after a break
IndexAfterBreak_One(idx) == 1

IndexAfterBreak(idx) == 0

\* line 176: the flag after a break
FlagAfterBreak_Kept(flag) == flag

FlagAfterBreak(flag) == 0

DMX_ErrorCallback(huart) ==
    /\ huart = huart_dmx => rxArmed
    /\ IF IsDmxUart(huart)
         THEN /\ indexDmx' = IndexAfterBreak(indexDmx)
              /\ dmxFlag' = FlagAfterBreak(dmxFlag)
              /\ rxArmed' = HAL_UART_Receive_IT(huart_dmx)
              \* a break met while the main loop is idle opens the scenario
              /\ scen' = IF pc = "idle" THEN "counting" ELSE "none"
              /\ nBytes' = 0
              /\ signalled' = FALSE
              /\ breakSeen' = TRUE
              /\ sinceSync' = <<>>
              /\ nSince' = 0
              /\ wrote' = -1
              /\ lostSignal' = (dmxFlag = 1 /\ pc = "idle")
         ELSE UNCHANGED <<indexDmx, dmxFlag, rxArmed, scen, nBytes, signalled,
                          breakSeen, sinceSync, nSince, wrote, lostSignal>>
    /\ UNCHANGED <<huart_dmx, dmxChannel, totalFramesReceived, errorFramesReceived,
                   dmxFrame, rxBuf, caller, raisedInPoll, callHist>>
    /\ Note("DMX_ErrorCallback", huart)

(* ---------------- DMX_RxCallback (DMX512.c:204-226) ---------------- *)
\* line 210: room left in the buffer
RxHasRoom_OffByOne(idx) == idx <= DMX_FRAME_SIZE

RxHasRoom_NoGuard(idx) == TRUE

RxHasRoom(idx) == idx < DMX_FRAME_SIZE

\* line 213: the fill index after a byte was stored
IndexAfterStore_Stuck(idx) == idx

IndexAfterStore(idx) == ToUint16(idx + 1)

\* line 215: the frame is complete
RxFrameComplete_Never(idx) == idx > DMX_FRAME_SIZE

RxFrameComplete_Early(idx) == idx >= DMX_FRAME_SIZE - 1

RxFrameComplete(idx) == idx >= DMX_FRAME_SIZE

\* line 224: the call that re-arms the reception is reached whatever was done
\* with the byte
RxRearms_OnlyWhenStored(idx) == idx < DMX_FRAME_SIZE

RxRearms(idx) == TRUE

\* `byte' is what the UART stored in rxBuf[0] before calling back (the one-byte
\* reception it had been armed for is then over); a callback for another UART
\* finds rxBuf as it was
DMX_RxCallback(huart, byte) ==
    /\ huart = huart_dmx => rxArmed
    /\ IF IsDmxUart(huart)
         THEN /\ rxBuf' = byte
              /\ IF RxHasRoom(indexDmx)
                   THEN /\ dmxFrame' = [dmxFrame EXCEPT ![indexDmx] = byte]
                        /\ wrote' = indexDmx
                        /\ indexDmx' = IndexAfterStore(indexDmx)
                        /\ dmxFlag' = IF RxFrameComplete(IndexAfterStore(indexDmx))
                                        THEN 1 ELSE dmxFlag
                   ELSE UNCHANGED <<dmxFrame, indexDmx, dmxFlag, wrote>>
              /\ rxArmed' = (RxRearms(indexDmx) /\ HAL_UART_Receive_IT(huart_dmx))
              /\ sinceSync' = IF Len(sinceSync) < DMX_FRAME_SIZE
                                THEN Append(sinceSync, byte) ELSE sinceSync
              /\ nSince' = IF nSince <= DMX_FRAME_SIZE THEN nSince + 1 ELSE nSince
              /\ raisedInPoll' = (raisedInPoll \/ (pc = "poll_clear" /\ dmxFlag' = 1 /\ dmxFlag = 0))
              /\ IF scen = "counting" /\ nBytes < DMX_FRAME_SIZE
                   THEN scen' = scen /\ nBytes' = nBytes + 1
                   ELSE scen' = "none" /\ nBytes' = 0
         ELSE UNCHANGED <<rxBuf, dmxFrame, indexDmx, dmxFlag, rxArmed,
                          raisedInPoll, scen, nBytes, sinceSync, nSince, wrote>>
    /\ UNCHANGED <<huart_dmx, dmxChannel, totalFramesReceived, errorFramesReceived,
                   caller, signalled, callHist, breakSeen, lostSignal>>
    /\ Note("DMX_RxCallback", huart)

\* the UART delivers a break or a byte
Break == \E h \in Handles : DMX_ErrorCallback(h)
Byte == \E h \in Handles : \E b \in WireBytes(indexDmx) : DMX_RxCallback(h, b)

(* ---------------- DMX_IsNewFrameAvailable (DMX512.c:77-84) ---------------- *)
\* line 79: the read of the volatile flag and the test
PollSeesFrame(flag) == flag = 1

\* progress of the scenario when a poll returns
ScenAfterPoll == CASE scen = "poll1" -> "done1"
                   [] scen = "poll2" -> "done2"
                   [] OTHER -> "none"

IsNewFrameAvailable_Test ==
    /\ pc = "idle"
    /\ IF PollSeesFrame(dmxFlag)
         THEN /\ pc' = "poll_clear"
              /\ ret' = ret
              /\ scen' = CASE scen = "counting" /\ nBytes = DMX_FRAME_SIZE -> "poll1"
                           [] scen = "done1" -> "poll2"
                           [] OTHER -> "none"
         ELSE /\ pc' = "idle"
              /\ ret' = 0
              /\ scen' = CASE scen = "counting" /\ nBytes = DMX_FRAME_SIZE -> "done1"
                           [] scen = "done1" -> "done2"
                           [] OTHER -> "none"
    /\ raisedInPoll' = FALSE
    /\ signalled' = (signalled \/ PollSeesFrame(dmxFlag))
    /\ UNCHANGED <<prog, data, output, statsOut, nBytes, reqAddr, syncHist>>
    /\ Enter(0)
    /\ Note("DMX_IsNewFrameAvailable", NULL)

\* line 80-81: the write that acknowledges the flag, and the return
IsNewFrameAvailable_Clear ==
    /\ pc = "poll_clear"
    /\ dmxFlag' = 0
    /\ ret' = 1
    /\ pc' = "idle"
    /\ scen' = ScenAfterPoll
    /\ UNCHANGED <<huart_dmx, dmxChannel, totalFramesReceived, errorFramesReceived,
                   indexDmx, dmxFrame, rxBuf, rxArmed, data, output, statsOut,
                   nBytes, raisedInPoll, signalled, callHist, syncHist>>
    /\ Note("DMX_IsNewFrameAvailable", NULL)

Poll == IsNewFrameAvailable_Test \/ IsNewFrameAvailable_Clear

\* what a call of the main loop that touches neither the receiver state nor
\* the scenarios leaves alone
CallFrame ==
    /\ pc = "idle"
    /\ UNCHANGED <<huart_dmx, dmxFlag, indexDmx, dmxFrame, rxBuf, rxArmed,
                   nBytes, raisedInPoll, signalled, syncHist>>
    /\ scen' = "none"

(* ---------------- DMX_SetChannel as called by the main loop ---------------- *)
DMX_SetChannel(arg) ==
    /\ CallFrame
    /\ dmxChannel' = SetChannelResult(arg, dmxChannel)
    /\ ret' = SetChannelReturn(arg)
    /\ UNCHANGED <<totalFramesReceived, errorFramesReceived, pc, data, output, statsOut>>
    /\ Enter(arg)
    /\ reqAddr' = IF arg \in DMX_CHANNEL_MIN..DMX_CHANNEL_MAX THEN arg ELSE reqAddr
    /\ Note("DMX_SetChannel", NULL)

(* ---------------- DMX_GetChannel (DMX512.c:69-72) ---------------- *)
DMX_GetChannel ==
    /\ CallFrame
    /\ ret' = dmxChannel
    /\ UNCHANGED <<dmxChannel, totalFramesReceived, errorFramesReceived, pc, data,
                   output, statsOut, reqAddr>>
    /\ Enter(0)
    /\ Note("DMX_GetChannel", NULL)

(* ---------------- DMX_DecodeFrame (DMX512.c:89-118) ---------------- *)
\* line 97: the start code test
StartCodeBad_Skipped(byte) == FALSE

StartCodeBad(byte) == byte # DMX_START_CODE

\* lines 108-112: the byte of the channel at `offset' from the configured address
ChannelRead_NoOffset(offset) == dmxFrame[dmxChannel]

ChannelRead(offset) == dmxFrame[dmxChannel + offset]

\* what every step of DMX_DecodeFrame leaves alone
DecodeFrame_Frame ==
    UNCHANGED <<huart_dmx, dmxChannel, dmxFlag, indexDmx, dmxFrame, rxBuf, rxArmed,
                output, statsOut, nBytes, raisedInPoll, signalled, reqAddr, syncHist>>

\* lines 92-100: the pointer check and the start code check; `ptr' is the
\* argument, NULL or the address of the caller's structure
\* line 92: no structure was given
DataMissing_Unchecked(ptr) == FALSE

DataMissing(ptr) == ptr = NULL

DecodeFrame_Check(ptr) ==
    /\ pc = "idle"
    /\ totalFramesReceived < MaxCount
    /\ errorFramesReceived < MaxCount
    /\ DecodeFrame_Frame
    /\ scen' = "none"
    /\ EnterWith(0, signalled)
    /\ Note("DMX_DecodeFrame", ptr)
    /\ UNCHANGED <<data, totalFramesReceived>>
    /\ IF DataMissing(ptr)
         THEN /\ ret' = 0
              /\ pc' = "idle"
              /\ UNCHANGED errorFramesReceived
         ELSE IF StartCodeBad(dmxFrame[0])
                THEN /\ errorFramesReceived' = errorFramesReceived + 1
                     /\ ret' = 0
                     /\ pc' = "idle"
                ELSE /\ pc' = "dec_red"
                     /\ UNCHANGED <<errorFramesReceived, ret>>

\* one of the five assignments of lines 108-112
DecodeFrame_Read(here, field, offset, next) ==
    /\ pc = here
    /\ data' = [data EXCEPT ![field] = ChannelRead(offset)]
    /\ pc' = next
    /\ DecodeFrame_Frame
    /\ UNCHANGED <<totalFramesReceived, errorFramesReceived, ret, scen, callPre>>
    /\ readAt' = readAt \cup {dmxChannel + offset}
    /\ Note("DMX_DecodeFrame", lastArg)

DecodeFrame_Red == DecodeFrame_Read("dec_red", "red", DMX_OFFSET_RED, "dec_green")
DecodeFrame_Green == DecodeFrame_Read("dec_green", "green", DMX_OFFSET_GREEN, "dec_blue")
DecodeFrame_Blue == DecodeFrame_Read("dec_blue", "blue", DMX_OFFSET_BLUE, "dec_dimmer")
DecodeFrame_Dimmer == DecodeFrame_Read("dec_dimmer", "dimmer", DMX_OFFSET_DIMMER, "dec_flash")
DecodeFrame_Flash == DecodeFrame_Read("dec_flash", "flash", DMX_OFFSET_FLASH, "dec_count")

\* lines 115-117: count the frame and return true
DecodeFrame_Count ==
    /\ pc = "dec_count"
    /\ totalFramesReceived' = totalFramesReceived + 1
    /\ ret' = 1
    /\ pc' = "idle"
    /\ DecodeFrame_Frame
    /\ UNCHANGED <<errorFramesReceived, data, scen, callPre, readAt>>
    /\ Note("DMX_DecodeFrame", lastArg)

DecodeStart == \E ptr \in {NULL, "data"} : DecodeFrame_Check(ptr)
DecodeStep == \/ DecodeFrame_Red \/ DecodeFrame_Green \/ DecodeFrame_Blue
              \/ DecodeFrame_Dimmer \/ DecodeFrame_Flash \/ DecodeFrame_Count

(* ---------------- DMX_ApplyDimmer (DMX512.c:134-149) ---------------- *)
\* lines 142-144: the operands are uint8_t widened to uint32_t, so the product
\* (at most 255 * 255) is exact; the quotient is stored in a uint8_t field
DimScale_NarrowProduct(color, dimmer) == ToUint8(ToUint8(color * dimmer) \div 255)

DimScale(color, dimmer) == ToUint8((color * dimmer) \div 255)

\* `dataPtr' and `outPtr' are the arguments, NULL or the addresses of the
\* caller's two structures
DMX_ApplyDimmer(dataPtr, outPtr) ==
    /\ CallFrame
    /\ IF dataPtr = NULL \/ outPtr = NULL
         THEN UNCHANGED output
         ELSE output' = [red    |-> DimScale(data.red, data.dimmer),
                         green  |-> DimScale(data.green, data.dimmer),
                         blue   |-> DimScale(data.blue, data.dimmer),
                         dimmer |-> data.dimmer,
                         flash  |-> data.flash]
    /\ UNCHANGED <<dmxChannel, totalFramesReceived, errorFramesReceived, pc, data,
                   ret, statsOut, reqAddr>>
    /\ Enter(0)
    /\ Note("DMX_ApplyDimmer", IF dataPtr = NULL \/ outPtr = NULL THEN NULL ELSE outPtr)

(* ---------------- DMX_GetStats (DMX512.c:231-239) ---------------- *)
DMX_GetStats(totalPtr, errorPtr) ==
    /\ CallFrame
    /\ statsOut' = <<IF totalPtr # NULL THEN totalFramesReceived ELSE statsOut[1],
                     IF errorPtr # NULL THEN errorFramesReceived ELSE statsOut[2]>>
    /\ UNCHANGED <<dmxChannel, totalFramesReceived, errorFramesReceived, pc, data,
                   output, ret, reqAddr>>
    /\ Enter(0)
    /\ Note("DMX_GetStats", IF totalPtr = NULL \/ errorPtr = NULL THEN NULL ELSE "stats")

(* ---------------- DMX_ResetStats (DMX512.c:244-248) ---------------- *)
DMX_ResetStats ==
    /\ CallFrame
    /\ totalFramesReceived' = StatsAfterReset(totalFramesReceived)
    /\ errorFramesReceived' = StatsAfterReset(errorFramesReceived)
    /\ UNCHANGED <<dmxChannel, pc, data, output, ret, statsOut, reqAddr>>
    /\ Enter(0)
    /\ Note("DMX_ResetStats", NULL)

Start == \E h \in Handles : \E c \in StartChannels : DMX_Init(h, c)

Next == Start \/ Break \/ Byte \/ Poll

Spec == Init /\ [][Next]_vars

(***************************************************************************)
(* The main loop configures the address and decodes frames the receiver    *)
(* has completed: the board is initialised on huart1, a whole frame has    *)
(* been received and polled, and the line is silent.  The caller's         *)
(* structure is either fresh or holds the channels 1..5 of an earlier      *)
(* frame, decoded at the default address.                                  *)
(***************************************************************************)
\* start codes of the frames: the standard one and another one
TestStartCodes == {DMX_START_CODE, 85}
\* frames whose 512 channels all differ from their neighbours
TestFrame(sc, k) == [i \in 0..(DMX_FRAME_SIZE - 1) |-> IF i = 0 THEN sc ELSE (i * k) % 251]
TestFrames == {TestFrame(sc, k) : sc \in TestStartCodes, k \in {1, 3}}
\* what DMX_DecodeFrame extracts from frame f at address a
Decoded(f, a) == [red    |-> f[a + DMX_OFFSET_RED],
                  green  |-> f[a + DMX_OFFSET_GREEN],
                  blue   |-> f[a + DMX_OFFSET_BLUE],
                  dimmer |-> f[a + DMX_OFFSET_DIMMER],
                  flash  |-> f[a + DMX_OFFSET_FLASH]]
EarlierData == Decoded(TestFrame(DMX_START_CODE, 7), DMX_CHANNEL_MIN)

InitDecode ==
    /\ huart_dmx = "huart1"
    /\ dmxChannel = 1
    /\ data \in {ZeroData, EarlierData}
    /\ totalFramesReceived = (IF data = ZeroData THEN 0 ELSE 1)
    /\ errorFramesReceived = 0
    /\ dmxFlag = 0
    /\ indexDmx = DMX_FRAME_SIZE
    /\ dmxFrame \in TestFrames
    /\ rxBuf = dmxFrame[DMX_FRAME_SIZE - 1]
    /\ rxArmed = TRUE
    /\ pc = "idle"
    /\ output = ZeroData
    /\ ret = 1
    /\ statsOut = <<0, 0>>
    /\ lastOp = "DMX_IsNewFrameAvailable"
    /\ lastArg = NULL
    /\ preIndex = DMX_FRAME_SIZE
    /\ preFlag = 1
    /\ scen = "none"
    /\ nBytes = 0
    /\ raisedInPoll = FALSE
    /\ signalled = TRUE
    /\ callPre = [channel |-> 1, total |-> totalFramesReceived, error |-> 0,
                  data |-> data, arg |-> 0,
                  signalled |-> FALSE]
    /\ reqAddr = 1
    /\ readAt = {}
    /\ breakSeen = TRUE
    /\ sinceSync = [i \in 1..DMX_FRAME_SIZE |-> dmxFrame[i - 1]]
    /\ nSince = DMX_FRAME_SIZE
    /\ wrote = DMX_FRAME_SIZE - 1
    /\ lostSignal = FALSE

SetChannel == \E a \in ChannelArgs : DMX_SetChannel(a)
GetStats == \E tp, ep \in {NULL, "stats"} : DMX_GetStats(tp, ep)

NextDecode == SetChannel \/ DMX_GetChannel \/ DecodeStart \/ DecodeStep
              \/ GetStats \/ DMX_ResetStats

SpecDecode == InitDecode /\ [][NextDecode]_vars

(***************************************************************************)
(* The same main loop when it may also call DMX_Init again, on the same    *)
(* UART, with any start address.                                           *)
(***************************************************************************)
InitConfig == InitDecode /\ dmxFrame = TestFrame(DMX_START_CODE, 1) /\ data = ZeroData

Restart == \E c \in ChannelArgs : DMX_Init(huart_dmx, c)

NextConfig == NextDecode \/ Restart

SpecConfig == InitConfig /\ [][NextConfig]_vars

(***************************************************************************)
(* The main loop of the usage notes (DMX512.h:204-212) running while the   *)
(* next frame arrives: a frame has just been completed, the main loop      *)
(* polls and decodes step by step, and the UART delivers a break and the   *)
(* first bytes of the next frame at any point in between.  In SpecTorn the *)
(* scene changes (the next frame differs from the one just completed); in  *)
(* SpecMain the sender repeats the frame and the main loop also makes its  *)
(* other calls.                                                            *)
(***************************************************************************)
\* how many bytes of the next frame are followed
MaxNextBytes == 6

\* the frame just completed and the one that follows it when the scene changes
FirstFrame == TestFrame(DMX_START_CODE, 1)
ChangedFrame == TestFrame(85, 5)

InitMain ==
    /\ huart_dmx = "huart1"
    /\ dmxChannel = 1
    /\ data = ZeroData
    /\ totalFramesReceived = 0
    /\ errorFramesReceived = 0
    /\ dmxFlag = 1
    /\ indexDmx = DMX_FRAME_SIZE
    /\ dmxFrame = FirstFrame
    /\ rxBuf = dmxFrame[DMX_FRAME_SIZE - 1]
    /\ rxArmed = TRUE
    /\ pc = "idle"
    /\ output = ZeroData
    /\ ret = 0
    /\ statsOut = <<0, 0>>
    /\ lastOp = "DMX_RxCallback"
    /\ lastArg = "huart1"
    /\ preIndex = DMX_FRAME_SIZE - 1
    /\ preFlag = 0
    /\ scen = "none"
    /\ nBytes = 0
    /\ raisedInPoll = FALSE
    /\ signalled = FALSE
    /\ callPre = [channel |-> 1, total |-> 0, error |-> 0, data |-> ZeroData, arg |-> 0,
                  signalled |-> FALSE]
    /\ reqAddr = 1
    /\ readAt = {}
    /\ breakSeen = TRUE
    /\ sinceSync = [i \in 1..DMX_FRAME_SIZE |-> dmxFrame[i - 1]]
    /\ nSince = DMX_FRAME_SIZE
    /\ wrote = DMX_FRAME_SIZE - 1
    /\ lostSignal = FALSE

BreakDmx == DMX_ErrorCallback(huart_dmx)
\* the next byte of frame f, or one more byte once the buffer is full
ByteOf(f) ==
    /\ indexDmx < MaxNextBytes \/ indexDmx >= DMX_FRAME_SIZE
    /\ DMX_RxCallback(huart_dmx, IF indexDmx < DMX_FRAME_SIZE THEN f[indexDmx] ELSE 0)
ByteChanged == ByteOf(ChangedFrame)
ByteRepeated == ByteOf(FirstFrame)

NextTorn == BreakDmx \/ ByteChanged \/ Poll \/ DecodeStart \/ DecodeStep

SpecTorn == InitMain /\ [][NextTorn]_vars

SetChannelMain == \E a \in {0, 2} : DMX_SetChannel(a)
GetStatsMain == DMX_GetStats("stats", "stats")
ApplyMain == DMX_ApplyDimmer("data", "output")

NextMain == BreakDmx \/ ByteRepeated \/ Poll \/ DecodeStart \/ DecodeStep
            \/ SetChannelMain \/ GetStatsMain \/ DMX_ResetStats \/ ApplyMain

SpecMain == InitMain /\ [][NextMain]_vars

(***************************************************************************)
(* Properties of the receiver and of the ready flag, checked under Spec.   *)
(***************************************************************************)
\* the last step was a break on the DMX UART
BreakDone == lastOp = "DMX_ErrorCallback" /\ lastArg = huart_dmx
\* the last step was a byte received on the DMX UART
ByteDone == lastOp = "DMX_RxCallback" /\ lastArg = huart_dmx
\* the last step was a poll that returned
PollDone == lastOp = "DMX_IsNewFrameAvailable" /\ pc = "idle"

\* C1: after a break on the DMX UART followed by 513 bytes, with the main loop
\* idle all along, the first DMX_IsNewFrameAvailable returns true and the
\* poll that follows it with no receiver event in between returns false.
C1_PollTrueThenFalse ==
    /\ scen = "done1" => ret = 1
    /\ scen = "done2" => ret = 0

\* both polls of the scenario have returned
C1_Witness == scen = "done2" /\ indexDmx = DMX_FRAME_SIZE /\ nBytes = DMX_FRAME_SIZE

\* the poll that just returned true wrote 0 over a flag that the receiver had
\* raised after the poll's own test of the flag
ErasedLaterFrame == PollDone /\ ret = 1 /\ raisedInPoll /\ preFlag = 1

\* C2: DMX_IsNewFrameAvailable is an atomic test-and-clear for the receiver:
\* the flag raised by a frame that completes after the poll's test is never
\* erased by that poll's clearing write.
C2_AtomicTestAndClear == ~ErasedLaterFrame

\* C3: a break on the DMX UART, at any fill index and with the flag in either
\* state, leaves indexDmx = 0 and dmxFlag = 0.
C3_BreakResets == BreakDone => (indexDmx = 0 /\ dmxFlag = 0)

\* a break that met a complete frame the main loop had not polled yet
C3_Witness == BreakDone /\ preIndex = DMX_FRAME_SIZE /\ preFlag = 1 /\ dmxFlag = 0

\* C4: while fewer than 513 bytes are stored since the last break the flag is 0,
\* and the flag goes from 0 to 1 only in the DMX_RxCallback that moves indexDmx
\* from 512 to 513.
C4_FlagOnlyWhenFull ==
    /\ indexDmx < DMX_FRAME_SIZE => dmxFlag = 0
    /\ (dmxFlag = 1 /\ preFlag = 0) =>
          (ByteDone /\ preIndex = DMX_FRAME_SIZE - 1 /\ indexDmx = DMX_FRAME_SIZE)

\* the flag has just been raised
C4_Witness == dmxFlag = 1 /\ preFlag = 0 /\ ByteDone

\* a DMX_RxCallback step on the DMX UART taken with the buffer full
OverrunStep == indexDmx = DMX_FRAME_SIZE /\ lastOp' = "DMX_RxCallback" /\ lastArg' = huart_dmx

\* the step of DMX_IsNewFrameAvailable that finds the flag set (the call will
\* return true)
PollTrueStep == pc = "idle" /\ pc' = "poll_clear"

\* C5: a byte that arrives with indexDmx = 513 is discarded: dmxFrame, indexDmx
\* and dmxFlag are unchanged (so a flag the main loop has cleared is not set
\* again), and no two polls find the flag set without a break or DMX_Init
\* between them.
C5_OverrunGuard ==
    [][ /\ OverrunStep => UNCHANGED <<dmxFrame, indexDmx, dmxFlag>>
        /\ PollTrueStep => ~signalled ]_vars

\* a byte, different from the last stored one, was discarded after the main
\* loop had cleared the flag
C5_Witness ==
    /\ ByteDone /\ preIndex = DMX_FRAME_SIZE /\ indexDmx = DMX_FRAME_SIZE
    /\ signalled /\ dmxFlag = 0
    /\ rxBuf # dmxFrame[DMX_FRAME_SIZE - 1]

(***************************************************************************)
(* The main loop scales decoded channels: the module is in its initial     *)
(* state and the caller's structure holds any colour with any dimmer.      *)
(***************************************************************************)
\* the example of the function's documentation (DMX512.c:126-130)
DimmerExample == [red |-> 200, green |-> 150, blue |-> 100, dimmer |-> 128, flash |-> 7]
\* every colour value meets every dimmer value in each of the three colour
\* fields; the three fields and flash hold different values
DimmerInputs ==
    {[red |-> c, green |-> (c + 85) % 256, blue |-> (c + 170) % 256,
      dimmer |-> d, flash |-> (c + d + 1) % 256] : c \in 0..255, d \in 0..255}
    \cup {DimmerExample}

InitDimmer ==
    /\ huart_dmx = NULL
    /\ dmxChannel = 1
    /\ totalFramesReceived = 0
    /\ errorFramesReceived = 0
    /\ dmxFlag = 0
    /\ indexDmx = 0
    /\ dmxFrame = ZeroFrame
    /\ rxBuf = 0
    /\ rxArmed = FALSE
    /\ pc = "idle"
    /\ data \in DimmerInputs
    /\ output = ZeroData
    /\ ret = 0
    /\ statsOut = <<0, 0>>
    /\ lastOp = "none"
    /\ lastArg = NULL
    /\ preIndex = 0
    /\ preFlag = 0
    /\ scen = "none"
    /\ nBytes = 0
    /\ raisedInPoll = FALSE
    /\ signalled = FALSE
    /\ callPre = [channel |-> 1, total |-> 0, error |-> 0, data |-> data, arg |-> 0,
                  signalled |-> FALSE]
    /\ reqAddr = 1
    /\ readAt = {}
    /\ breakSeen = FALSE
    /\ sinceSync = <<>>
    /\ nSince = 0
    /\ wrote = -1
    /\ lostSignal = FALSE

NextDimmer == \E dp \in {NULL, "data"}, op \in {NULL, "output"} : DMX_ApplyDimmer(dp, op)

SpecDimmer == InitDimmer /\ [][NextDimmer]_vars

(***************************************************************************)
(* Properties of the address configuration and of the decoder, checked     *)
(* under SpecDecode.                                                       *)
(***************************************************************************)
\* the last step was the return of a DMX_DecodeFrame given the caller's structure
DecodeDone == lastOp = "DMX_DecodeFrame" /\ pc = "idle" /\ lastArg # NULL
\* the addresses the interface documents as valid
ValidAddresses == DMX_CHANNEL_MIN..DMX_CHANNEL_MAX

\* C6: with an address a in 1..506 configured through DMX_SetChannel and start
\* code 0 in the buffer, DMX_DecodeFrame returns true with red = dmxFrame[a],
\* green = dmxFrame[a+1], blue = dmxFrame[a+2], dimmer = dmxFrame[a+3],
\* flash = dmxFrame[a+4], adds 1 to totalFramesReceived and leaves
\* errorFramesReceived alone.
C6_DecodeAtConfiguredAddress ==
    (DecodeDone /\ dmxFrame[0] = DMX_START_CODE) =>
        /\ ret = 1
        /\ data = [red    |-> dmxFrame[reqAddr + DMX_OFFSET_RED],
                   green  |-> dmxFrame[reqAddr + DMX_OFFSET_GREEN],
                   blue   |-> dmxFrame[reqAddr + DMX_OFFSET_BLUE],
                   dimmer |-> dmxFrame[reqAddr + DMX_OFFSET_DIMMER],
                   flash  |-> dmxFrame[reqAddr + DMX_OFFSET_FLASH]]
        /\ totalFramesReceived = callPre.total + 1
        /\ errorFramesReceived = callPre.error

\* C7: DMX_DecodeFrame called (with the caller's structure) while dmxFrame[0]
\* is not 0 returns false, adds exactly 1 to errorFramesReceived, leaves
\* totalFramesReceived alone and leaves the caller's structure as it was.
C7_BadStartCodeRejected ==
    (DecodeDone /\ dmxFrame[0] # DMX_START_CODE) =>
        /\ ret = 0
        /\ errorFramesReceived = callPre.error + 1
        /\ totalFramesReceived = callPre.total
        /\ data = callPre.data

\* a frame with a bad start code was refused while the caller's structure
\* held the values decoded from an earlier frame
C7_Witness ==
    /\ DecodeDone /\ dmxFrame[0] # DMX_START_CODE
    /\ ret = 0 /\ data = EarlierData /\ totalFramesReceived = 1
    /\ callPre.error = 1 /\ errorFramesReceived = 2

\* C8: DMX_SetChannel refuses every address outside 1..506 (0 and 507 among
\* them): it returns false and dmxChannel keeps its value.
C8_InvalidAddressRejected ==
    (lastOp = "DMX_SetChannel" /\ callPre.arg \notin ValidAddresses) =>
        (ret = 0 /\ dmxChannel = callPre.channel)

\* C9: DMX_SetChannel(a) with a in 1..506 returns true and stores a, and
\* DMX_GetChannel then returns a.
C9_ValidAddressStored ==
    /\ (lastOp = "DMX_SetChannel" /\ callPre.arg \in ValidAddresses) =>
          (ret = 1 /\ dmxChannel = callPre.arg)
    /\ lastOp = "DMX_GetChannel" => ret = reqAddr

(***************************************************************************)
(* Property of the dimmer, checked under SpecDimmer.                       *)
(***************************************************************************)
\* the last step was a DMX_ApplyDimmer given both structures
ApplyDone == lastOp = "DMX_ApplyDimmer" /\ lastArg # NULL
\* q is the integer part of color * dimmer / 255
IsFloorScaled(q, color, dimmer) ==
    /\ q \in 0..255
    /\ q * 255 <= color * dimmer
    /\ color * dimmer < (q + 1) * 255

\* C10: for all 8-bit inputs DMX_ApplyDimmer gives red, green and blue the
\* value floor(color * dimmer / 255), always in 0..255, and copies dimmer and
\* flash; so dimmer = 0 gives three zeros and dimmer = 255 gives the input
\* colours back.
C10_DimmerScaling ==
    ApplyDone =>
        /\ IsFloorScaled(output.red, data.red, data.dimmer)
        /\ IsFloorScaled(output.green, data.green, data.dimmer)
        /\ IsFloorScaled(output.blue, data.blue, data.dimmer)
        /\ output.dimmer = data.dimmer
        /\ output.flash = data.flash
        /\ data.dimmer = 0 => (output.red = 0 /\ output.green = 0 /\ output.blue = 0)
        /\ data.dimmer = 255 => (output.red = data.red /\ output.green = data.green
                                 /\ output.blue = data.blue)

\* the documented example: 200, 150, 100 at dimmer 128 give 100, 75, 50
C10_Witness ==
    /\ ApplyDone /\ data = DimmerExample
    /\ output = [red |-> 100, green |-> 75, blue |-> 50, dimmer |-> 128, flash |-> 7]

(***************************************************************************)
(* Claims about the reception being kept going and about                    *)
(* re-synchronisation (specification Spec)                                  *)
(***************************************************************************)
\* C11: DMX_ErrorCallback and DMX_RxCallback on the DMX UART re-arm the
\* one-byte reception before they return, whether the byte was stored, was
\* discarded on overrun or a break was handled; so once DMX_Init has run the
\* reception is armed after every receiver event and the next event can be
\* delivered.
C11_AlwaysRearmed ==
    /\ (BreakDone \/ ByteDone) => rxArmed
    /\ huart_dmx # NULL => rxArmed

\* a byte was discarded on overrun and the reception is armed again
C11_Witness == ByteDone /\ preIndex = DMX_FRAME_SIZE /\ nSince > DMX_FRAME_SIZE /\ rxArmed

\* exactly 513 bytes were handled since the most recent break
FrameSinceBreak == breakSeen /\ nSince = DMX_FRAME_SIZE

\* C12: whatever the state a break is handled in, once 513 bytes have
\* followed it with no further break indexDmx is 513, the buffer holds these
\* bytes in their order of arrival, and dmxFlag is 1 when the 513th byte has
\* just been handled.
C12_Resynchronises ==
    /\ FrameSinceBreak =>
          /\ indexDmx = DMX_FRAME_SIZE
          /\ \A i \in 0..(DMX_FRAME_SIZE - 1) : dmxFrame[i] = sinceSync[i + 1]
    /\ (FrameSinceBreak /\ ByteDone) => dmxFlag = 1

\* the 513th byte after a break has just been handled; the frame carries a
\* bad start code and a marked last slot
C12_Witness ==
    /\ FrameSinceBreak /\ ByteDone /\ dmxFlag = 1
    /\ dmxFrame[0] = 85 /\ dmxFrame[DMX_FRAME_SIZE - 1] = 85

\* C15: indexDmx is always in 0..513 and DMX_RxCallback writes dmxFrame only
\* at an index in 0..512, the value indexDmx had before the write.
C15_IndexInRange ==
    /\ indexDmx \in 0..DMX_FRAME_SIZE
    /\ wrote \in -1..(DMX_FRAME_SIZE - 1)
    /\ DOMAIN dmxFrame = 0..(DMX_FRAME_SIZE - 1)
    /\ (ByteDone /\ preIndex < DMX_FRAME_SIZE) => (wrote = preIndex /\ indexDmx = preIndex + 1)

\* a byte arrived with the buffer full: the last write stays the one at 512
C15_Witness ==
    ByteDone /\ preIndex = DMX_FRAME_SIZE /\ indexDmx = DMX_FRAME_SIZE
             /\ wrote = DMX_FRAME_SIZE - 1

\* the buffer holds exactly the first 513 bytes handled since the last
\* break or DMX_Init
BufferIsSinceSync ==
    /\ Len(sinceSync) = DMX_FRAME_SIZE
    /\ \A i \in 0..(DMX_FRAME_SIZE - 1) : dmxFrame[i] = sinceSync[i + 1]

\* C19 as stated: whenever dmxFlag is 1 a break was handled since DMX_Init
\* and the buffer holds the bytes received since the most recent break.
C19_GateOnlyAfterBreak == dmxFlag = 1 => (breakSeen /\ BufferIsSinceSync)

\* C19 amended: whenever dmxFlag is 1 the buffer holds the 513 bytes received
\* since the most recent break or, when no break was handled yet, since
\* DMX_Init.
C19_GateOnlyForFullBuffer == dmxFlag = 1 => (nSince >= DMX_FRAME_SIZE /\ BufferIsSinceSync)

\* the flag is up for 513 bytes that followed DMX_Init with no break
C19_Witness == dmxFlag = 1 /\ ~breakSeen /\ BufferIsSinceSync

\* the flag has just been raised for a frame although the flag of the frame
\* before it was cleared by the break with no poll having returned true
RaisedAfterLoss == ByteDone /\ preFlag = 0 /\ dmxFlag = 1 /\ lostSignal

\* C13 as stated: dmxFlag is never set, cleared and set again for a later
\* frame without a DMX_IsNewFrameAvailable having returned true in between.
C13_EverySignalSeen == ~RaisedAfterLoss

\* C13 amended: a set dmxFlag is cleared only by the DMX_IsNewFrameAvailable
\* that found it set, by a break on the DMX UART or by DMX_Init; a frame not
\* polled before the next break is dropped without having been signalled.
C13_ClearedOnlyByPollOrSync ==
    [][(dmxFlag = 1 /\ dmxFlag' = 0) =>
          \/ pc = "poll_clear" /\ pc' = "idle"
          \/ lastOp' = "DMX_ErrorCallback" /\ lastArg' = huart_dmx
          \/ lastOp' = "DMX_Init"]_vars

\* a complete frame was dropped by a break before any poll, and the frame
\* after it has raised the flag
C13_Witness == RaisedAfterLoss /\ breakSeen /\ pc = "idle"

(***************************************************************************)
(* Claims about the statistics and the configured address                  *)
(* (specification SpecDecode)                                               *)
(***************************************************************************)
\* C14: DMX_ResetStats sets totalFramesReceived and errorFramesReceived to 0
\* and leaves the frame buffer, the fill index, the ready flag and the
\* configured address as they were.
C14_ResetStatsEffect ==
    [][lastOp' = "DMX_ResetStats" =>
          /\ totalFramesReceived' = 0
          /\ errorFramesReceived' = 0
          /\ UNCHANGED <<dmxFrame, indexDmx, dmxFlag, dmxChannel>>]_vars

\* both counters were non-zero and an address other than the default was
\* configured when DMX_ResetStats was called
C14_Witness ==
    /\ lastOp = "DMX_ResetStats"
    /\ callPre.total > 0 /\ callPre.error > 0
    /\ totalFramesReceived = 0 /\ errorFramesReceived = 0
    /\ dmxChannel = 250 /\ indexDmx = DMX_FRAME_SIZE /\ dmxFrame[0] # DMX_START_CODE

\* C17: after any sequence of DMX_Init and DMX_SetChannel calls, whatever
\* their arguments, dmxChannel is in 1..506, so dmxChannel + 4 <= 511 and the
\* five channel reads of DMX_DecodeFrame are at indices in 1..510.
C17_AddressInRange ==
    /\ dmxChannel \in DMX_CHANNEL_MIN..DMX_CHANNEL_MAX
    /\ dmxChannel + DMX_OFFSET_FLASH <= DMX_FRAME_SIZE - 2
    /\ readAt \subseteq 1..(DMX_FRAME_SIZE - 3)

\* a decode has read its five channels after DMX_Init and DMX_SetChannel were
\* both given arguments outside 1..506
C17_Witness ==
    /\ DecodeDone /\ ret = 1 /\ Cardinality(readAt) = 5
    /\ dmxFrame = ZeroFrame /\ reqAddr = DMX_CHANNEL_MAX /\ dmxChannel # reqAddr

\* the last step was a DMX_Init
InitDone == lastOp = "DMX_Init"

\* C20: DMX_Init(huart, startChannel) always leaves indexDmx 0, dmxFlag 0,
\* the 513 bytes of dmxFrame 0, both counters 0 and the reception armed; the
\* stored address is startChannel when startChannel is in 1..506 and is the
\* one stored before otherwise.
C20_InitEffect ==
    InitDone =>
        /\ indexDmx = 0 /\ dmxFlag = 0 /\ dmxFrame = ZeroFrame
        /\ totalFramesReceived = 0 /\ errorFramesReceived = 0
        /\ rxArmed
        /\ dmxChannel = (IF callPre.arg \in ValidAddresses
                           THEN callPre.arg ELSE callPre.channel)

(***************************************************************************)
(* Claims about the main loop running against the receiver                 *)
(* (specifications SpecTorn and SpecMain)                                   *)
(***************************************************************************)
\* the frames the receiver is given in SpecTorn
ReceivedFrames == {FirstFrame, ChangedFrame}

\* the byte that frame f carries for a field of the fixture
SlotOf(f, offset) == f[dmxChannel + offset]

\* a decode reported success although no received frame has both a good
\* start code and the five values returned
Torn ==
    /\ DecodeDone /\ ret = 1
    /\ \A f \in ReceivedFrames :
          f[0] # DMX_START_CODE \/ data # Decoded(f, dmxChannel)

\* C18: DMX_DecodeFrame reads the shared buffer without excluding the
\* receiver, so a break and bytes of the next frame arriving during a decode
\* called after DMX_IsNewFrameAvailable returned true give a successful
\* decode whose start-code check and five values do not come from one frame
\* (the state C18_Witness); each value returned is still the byte that one
\* of the received frames carries at the slot of that field.
C18_FieldsFromReceivedFrames ==
    (DecodeDone /\ ret = 1) =>
        /\ data.red \in {SlotOf(f, DMX_OFFSET_RED) : f \in ReceivedFrames}
        /\ data.green \in {SlotOf(f, DMX_OFFSET_GREEN) : f \in ReceivedFrames}
        /\ data.blue \in {SlotOf(f, DMX_OFFSET_BLUE) : f \in ReceivedFrames}
        /\ data.dimmer \in {SlotOf(f, DMX_OFFSET_DIMMER) : f \in ReceivedFrames}
        /\ data.flash \in {SlotOf(f, DMX_OFFSET_FLASH) : f \in ReceivedFrames}

\* the decode was entered after a poll had returned true for the frame in
\* the buffer; it took red and green from that frame, then a break and the
\* first bytes of the next frame arrived, and it took blue, dimmer and flash
\* from the next frame
C18_Witness ==
    /\ Torn /\ callPre.signalled
    /\ data.red = SlotOf(FirstFrame, DMX_OFFSET_RED)
    /\ data.green = SlotOf(FirstFrame, DMX_OFFSET_GREEN)
    /\ data.blue = SlotOf(ChangedFrame, DMX_OFFSET_BLUE)
    /\ data.dimmer = SlotOf(ChangedFrame, DMX_OFFSET_DIMMER)
    /\ data.flash = SlotOf(ChangedFrame, DMX_OFFSET_FLASH)
    /\ data.green # SlotOf(ChangedFrame, DMX_OFFSET_GREEN)
    /\ data.blue # SlotOf(FirstFrame, DMX_OFFSET_BLUE)

\* the calls of the main loop
MainLoopCalls == {"DMX_IsNewFrameAvailable", "DMX_DecodeFrame", "DMX_ApplyDimmer",
                  "DMX_SetChannel", "DMX_GetChannel", "DMX_GetStats", "DMX_ResetStats"}

\* C16: between two breaks indexDmx never decreases: a byte on the DMX UART
\* adds 1 to it or leaves it at 513, and none of the calls the main loop
\* makes once the module is initialised changes it; only a break takes it
\* back to 0.
C16_IndexMonotonic ==
    [][/\ indexDmx' < indexDmx =>
             (lastOp' = "DMX_ErrorCallback" /\ lastArg' = huart_dmx /\ indexDmx' = 0)
       /\ (lastOp' = "DMX_RxCallback" /\ lastArg' = huart_dmx) =>
             \/ indexDmx' = indexDmx + 1
             \/ indexDmx = DMX_FRAME_SIZE /\ indexDmx' = DMX_FRAME_SIZE
       /\ lastOp' \in MainLoopCalls => indexDmx' = indexDmx]_vars

\* DMX_ResetStats was called with three bytes of the next frame in the
\* buffer and left the fill index there
C16_Witness ==
    /\ lastOp = "DMX_ResetStats" /\ breakSeen /\ nSince = 3 /\ indexDmx = 3
    /\ callPre.total > 0

(***************************************************************************)
(* Claims about the calls that are refused                                  *)
(***************************************************************************)
\* the step is a callback for a UART other than the one given to DMX_Init
ForeignCallback ==
    /\ lastOp' \in {"DMX_ErrorCallback", "DMX_RxCallback"}
    /\ lastArg' # huart_dmx

\* C21: DMX_ErrorCallback and DMX_RxCallback called with a handle other than
\* the one registered by DMX_Init change nothing: indexDmx, dmxFlag, the
\* frame buffer, the counters and the address stay as they were and the
\* reception is not re-armed.
C21_ForeignHandleIgnored ==
    [][ForeignCallback =>
          UNCHANGED <<huart_dmx, indexDmx, dmxFlag, dmxFrame, rxBuf,
                      totalFramesReceived, errorFramesReceived, dmxChannel,
                      rxArmed>>]_vars

\* a byte was reported for the other UART in the middle of a frame, with a
\* marked start code already in the buffer
C21_Witness ==
    /\ lastOp = "DMX_RxCallback" /\ lastArg = "huart2" /\ huart_dmx = "huart1"
    /\ indexDmx = 3 /\ preIndex = 3 /\ nSince = 3 /\ dmxFrame[0] = 85

\* the last step was a DMX_DecodeFrame given no structure
DecodeRefused == lastOp = "DMX_DecodeFrame" /\ lastArg = NULL

\* C22: DMX_DecodeFrame called with a null pointer returns false and changes
\* neither totalFramesReceived nor errorFramesReceived nor anything else,
\* whatever the start code in the buffer; so a false return does not always
\* go with an increment of errorFramesReceived.
C22_NullPointerRefused ==
    [][(lastOp' = "DMX_DecodeFrame" /\ lastArg' = NULL) =>
          /\ ret' = 0 /\ pc' = "idle"
          /\ UNCHANGED <<prog, data, output, statsOut>>]_vars

\* the call was refused with a bad start code in the buffer and the error
\* counter, already at 1, was left alone
C22_Witness ==
    /\ DecodeRefused /\ ret = 0 /\ pc = "idle"
    /\ dmxFrame[0] # DMX_START_CODE
    /\ callPre.error = 1 /\ errorFramesReceived = 1
    /\ callPre.total = 1 /\ totalFramesReceived = 1

====
